---------------------------- MODULE Spec2Model ----------------------------
(***************************************************************************)
(* A model of the CEL-backed rules engine (package cel, CELEngine) of      *)
(* ezachrisen/rules.  The engine holds two maps, rules and programs; its   *)
(* operations are AddRule, RemoveRule, Rule, Evaluate and Calculate.  The  *)
(* engine is single threaded: every operation runs to completion, so each  *)
(* operation is one action (Spec).  Evaluate calls that run at the same    *)
(* time, step by step, are the subject of a second specification           *)
(* (ConcurrentSpec).                                                       *)
(*                                                                         *)
(* Strings that the code inspects character by character (rule ids and     *)
(* expressions) are sequences of one-character strings.                    *)
(***************************************************************************)
EXTENDS Integers, Sequences, FiniteSets, TLC

VARIABLES
    rules,      \* CELEngine.rules    : rule id -> Rule (the registered trees)
    programs,   \* CELEngine.programs : rule id -> compiled program
    last,       \* the call that has just returned to the caller: its arguments and
                \* what it returned; NoCall once the caller has taken the result
    prev,       \* history: the rules of the call before, if it was an AddRule
                \* that succeeded
    removed,    \* history: ids passed to RemoveRule and not put in the rule index since
    calculated, \* history: expressions compiled by Calculate and not removed since
    calls,      \* ConcurrentSpec: the Evaluate call of each goroutine, step by step
    maps,       \* ConcurrentSpec: the data maps the callers hand to those calls
    until       \* UntilTrueSpec: an EvaluateUntilTrue call of package rules, step by step

vars == <<rules, programs, last, prev, removed, calculated, calls, maps, until>>

----------------------------------------------------------------------------
(* Bounds of the model *)

\* the largest number of rules handed to one AddRule call
MaxAddRules == 3

\* the largest MaxDepth an Evaluate caller asks for through its options
MaxDepthOption == 1

\* the largest number of rules in a rule set handed to EvaluateUntilTrue
MaxRuleSet == 3

----------------------------------------------------------------------------
(* Maps (Go map[K]V) as functions *)

EmptyMap == [k \in {} |-> TRUE]

Put(m, k, v) == [x \in (DOMAIN m) \cup {k} |-> IF x = k THEN v ELSE m[x]]

Delete(m, k) == [x \in (DOMAIN m) \ {k} |-> m[x]]

----------------------------------------------------------------------------
(* Values (interface{}): a runtime type and a printed value *)

Nil == [type |-> "nil", v |-> ""]

BoolVal(b) == [type |-> "bool", v |-> IF b THEN "true" ELSE "false"]

DoubleVal(s) == [type |-> "double", v |-> s]

ObjVal(s) == [type |-> "obj", v |-> s]

\* v, ok := value.(bool)
IsTrue(val) == val.type = "bool" /\ val.v = "true"

----------------------------------------------------------------------------
(* Errors: a chain of messages, outermost first, as fmt.Errorf("...%w") builds it *)

NoError == <<>>

Errorf(msg, arg) == <<[msg |-> msg, arg |-> arg]>>

Wrap(msg, arg, err) == <<[msg |-> msg, arg |-> arg]>> \o err

----------------------------------------------------------------------------
(* Package rules: evaluation options *)

SelfKey == "self"

DefaultDepth == 100

MaxDepthOpt(n) == [f |-> "MaxDepth", n |-> n, b |-> FALSE]

BoolOpt(name, b) == [f |-> name, n |-> 0, b |-> b]

\* one rules.Option applied to the options
ApplyOption(o, opt) ==
    CASE opt.f = "MaxDepth" -> [o EXCEPT !.MaxDepth = opt.n]
      [] opt.f = "ReturnPass" -> [o EXCEPT !.ReturnPass = opt.b]
      [] opt.f = "ReturnFail" -> [o EXCEPT !.ReturnFail = opt.b]
      [] opt.f = "StopIfParentNegative" -> [o EXCEPT !.StopIfParentNegative = opt.b]
      [] opt.f = "StopFirstPositiveChild" -> [o EXCEPT !.StopFirstPositiveChild = opt.b]
      [] opt.f = "StopFirstNegativeChild" -> [o EXCEPT !.StopFirstNegativeChild = opt.b]

RECURSIVE ApplyOptions(_, _)
\* rules.ApplyOptions(&o, opts...): the options applied in order
ApplyOptions(o, opts) ==
    IF opts = <<>> THEN o
    ELSE ApplyOptions(ApplyOption(o, Head(opts)), Tail(opts))

\* the options Evaluate starts from
BaseOptions ==
    [MaxDepth |-> DefaultDepth, ReturnFail |-> TRUE, ReturnPass |-> TRUE,
     StopIfParentNegative |-> FALSE, StopFirstPositiveChild |-> FALSE,
     StopFirstNegativeChild |-> FALSE]


----------------------------------------------------------------------------
(* Package rules: schemas and their types *)

Prim(kind) == [kind |-> kind]

ListOf(t) == [kind |-> "List", ValueType |-> t]

MapOf(k, t) == [kind |-> "Map", KeyType |-> k, ValueType |-> t]

\* rules.Proto; isMessage: whether Message implements protoiface.MessageV1
ProtoOf(name, isMessage) == [kind |-> "Proto", Protoname |-> name, isMessage |-> isMessage]

Elem(name, t) == [Name |-> name, Type |-> t]

MkSchema(id, elements) == [ID |-> id, Elements |-> elements]

----------------------------------------------------------------------------
(* The expression evaluator (cel-go), as far as the engine uses it.        *)
(* The expressions of the model are an identifier (x) or its negation      *)
(* (!x); everything else does not parse.                                   *)

Identifiers == {"a", "x", "y"}

\* env.Parse
Parse(expr) ==
    IF Len(expr) = 1 /\ expr[1] \in Identifiers
    THEN [err |-> NoError, op |-> "ident", name |-> expr[1]]
    ELSE IF Len(expr) = 2 /\ expr[1] = "!" /\ expr[2] \in Identifiers
    THEN [err |-> NoError, op |-> "not", name |-> expr[2]]
    ELSE [err |-> Errorf("Syntax error", expr), op |-> "", name |-> ""]

Declared(decls, name) == \E i \in 1..Len(decls) : decls[i].name = name

DeclaredAs(decls, name, types) ==
    \E i \in 1..Len(decls) : decls[i].name = name /\ decls[i].type.t \in types

\* env.Check: every identifier is declared, and ! takes a bool
Check(decls, ast) ==
    IF ~Declared(decls, ast.name)
    THEN Errorf("undeclared reference", <<ast.name>>)
    ELSE IF ast.op = "not" /\ ~DeclaredAs(decls, ast.name, {"bool", "dyn"})
    THEN Errorf("no matching overload", <<ast.name>>)
    ELSE NoError

\* cel.NewEnv(decls): overlapping declarations are refused
NewEnv(decls) ==
    IF \E i, j \in 1..Len(decls) : i # j /\ decls[i].name = decls[j].name
    THEN [err |-> Errorf("overlapping identifier", <<>>), decls |-> decls]
    ELSE [err |-> NoError, decls |-> decls]

\* program.Eval(data): the value, or a runtime error
Eval(prg, data) ==
    LET ast == Parse(prg.expr) IN
      IF ast.name \notin DOMAIN data
      THEN [err |-> Errorf("no such attribute", <<ast.name>>), val |-> Nil]
      ELSE IF ast.op = "ident"
      THEN [err |-> NoError, val |-> data[ast.name]]
      ELSE IF data[ast.name].type = "bool"
      THEN [err |-> NoError, val |-> BoolVal(~IsTrue(data[ast.name]))]
      ELSE [err |-> Errorf("no such overload", <<ast.name>>), val |-> Nil]

----------------------------------------------------------------------------
(* Schema compiler *)

RECURSIVE celType(_)
\* celType: a rules.Type to a CEL type
celType(t) ==
    CASE t.kind = "String" -> [err |-> NoError, typ |-> [t |-> "string"]]
      [] t.kind = "Int" -> [err |-> NoError, typ |-> [t |-> "int"]]
      [] t.kind = "Float" -> [err |-> NoError, typ |-> [t |-> "double"]]
      [] t.kind = "Bool" -> [err |-> NoError, typ |-> [t |-> "bool"]]
      [] t.kind = "Duration" -> [err |-> NoError, typ |-> [t |-> "duration"]]
      [] t.kind = "Timestamp" -> [err |-> NoError, typ |-> [t |-> "timestamp"]]
      [] t.kind = "Map" ->
           LET key == celType(t.KeyType)
               val == celType(t.ValueType)
           IN IF key.err # NoError
              THEN [err |-> Wrap("Setting key of map", <<>>, key.err), typ |-> [t |-> ""]]
              ELSE IF val.err # NoError
              THEN [err |-> Wrap("Setting value of map", <<>>, val.err), typ |-> [t |-> ""]]
              ELSE [err |-> NoError, typ |-> [t |-> "map", key |-> key.typ, val |-> val.typ]]
      [] t.kind = "List" ->
           LET val == celType(t.ValueType)
           IN IF val.err # NoError
              THEN [err |-> Wrap("Setting value of list", <<>>, val.err), typ |-> [t |-> ""]]
              ELSE [err |-> NoError, typ |-> [t |-> "list", val |-> val.typ]]
      [] t.kind = "Proto" ->
           IF ~t.isMessage
           THEN [err |-> Errorf("Casting to proto message", <<t.Protoname>>), typ |-> [t |-> ""]]
           ELSE [err |-> NoError, typ |-> [t |-> "object", name |-> t.Protoname]]
      [] OTHER -> [err |-> NoError, typ |-> [t |-> "dyn"]]

RECURSIVE declarationsFrom(_, _, _)
\* the loop of schemaToDeclarations over s.Elements, from element i on
declarationsFrom(elements, i, items) ==
    IF i > Len(elements) THEN [err |-> NoError, decls |-> items]
    ELSE LET typ == celType(elements[i].Type)
         IN IF typ.err # NoError
            THEN [err |-> typ.err, decls |-> <<>>]
            ELSE declarationsFrom(elements, i + 1,
                     Append(items, [name |-> elements[i].Name, type |-> typ.typ]))

\* schemaToDeclarations: the CEL declarations of a schema
schemaToDeclarations(s) == declarationsFrom(s.Elements, 1, <<>>)

----------------------------------------------------------------------------
(* Registration *)

\* compileRule: parse, check, generate; the program remembers what it was
\* compiled from
compileRule(env, r) ==
    LET p == Parse(r.Expr)
        c == Check(env.decls, p)
    IN IF p.err # NoError
       THEN [err |-> Wrap("parsing rule", r.ID, p.err), prg |-> Nil]
       ELSE IF c # NoError
       THEN [err |-> Wrap("checking rule", r.ID, c), prg |-> Nil]
       ELSE [err |-> NoError, prg |-> [expr |-> r.Expr, decls |-> env.decls]]

\* e.programs[r.ID] = prg
StoreProgram(progs, id, prg) == Put(progs, id, prg)

RECURSIVE addRuleWithSchema(_, _, _), addChildRules(_, _, _, _)
\* a schema choice that prefers the schema handed down over the rule's own
addRuleWithSchema_ParentFirst(progs, r, s) ==
    LET inherited == Len(s.Elements) > 0
        own == ~inherited /\ Len(r.Schema.Elements) > 0
        schemaToPassOn == IF inherited THEN s ELSE IF own THEN r.Schema
                          ELSE MkSchema("", <<>>)
        d == schemaToDeclarations(schemaToPassOn)
        env == NewEnv(d.decls)
        c == compileRule(env, r)
    IN IF (own \/ inherited) /\ d.err # NoError
       THEN [programs |-> progs, err |-> d.err]
       ELSE IF ~(own \/ inherited)
       THEN [programs |-> progs, err |-> Errorf("No valid schema for rule", r.ID)]
       ELSE IF env.err # NoError
       THEN [programs |-> progs, err |-> env.err]
       ELSE IF r.Expr # <<>> /\ c.err # NoError
       THEN [programs |-> progs, err |-> Wrap("compiling rule", r.ID, c.err)]
       ELSE addChildRules(IF r.Expr # <<>> THEN StoreProgram(progs, r.ID, c.prg) ELSE progs,
                          r, 1, schemaToPassOn)

\* addRuleWithSchema: compile r and its descendants into the program index;
\* returns the program index as the call leaves it, and the error
addRuleWithSchema(progs, r, s) ==
    LET own == Len(r.Schema.Elements) > 0
        inherited == ~own /\ Len(s.Elements) > 0
        schemaToPassOn == IF own THEN r.Schema ELSE IF inherited THEN s
                          ELSE MkSchema("", <<>>)
        d == schemaToDeclarations(schemaToPassOn)
        env == NewEnv(d.decls)
        c == compileRule(env, r)
    IN IF (own \/ inherited) /\ d.err # NoError
       THEN [programs |-> progs, err |-> d.err]
       ELSE IF ~(own \/ inherited)
       THEN [programs |-> progs, err |-> Errorf("No valid schema for rule", r.ID)]
       ELSE IF env.err # NoError
       THEN [programs |-> progs, err |-> env.err]
       ELSE IF r.Expr # <<>> /\ c.err # NoError
       THEN [programs |-> progs, err |-> Wrap("compiling rule", r.ID, c.err)]
       ELSE addChildRules(IF r.Expr # <<>> THEN StoreProgram(progs, r.ID, c.prg) ELSE progs,
                          r, 1, schemaToPassOn)

\* the loop of addRuleWithSchema over r.Rules, from child i on
addChildRules(progs, r, i, schemaToPassOn) ==
    IF i > Len(r.Rules) THEN [programs |-> progs, err |-> NoError]
    ELSE LET a == addRuleWithSchema(progs, r.Rules[i], schemaToPassOn)
         IN IF a.err # NoError
            THEN [programs |-> a.programs, err |-> Wrap("adding rule", r.Rules[i].ID, a.err)]
            ELSE addChildRules(a.programs, r, i + 1, schemaToPassOn)

RECURSIVE TrimLeft(_, _), TrimRight(_, _)
TrimLeft(s, cutset) ==
    IF s # <<>> /\ Head(s) \in cutset THEN TrimLeft(Tail(s), cutset) ELSE s

TrimRight(s, cutset) ==
    IF s # <<>> /\ s[Len(s)] \in cutset
    THEN TrimRight(SubSeq(s, 1, Len(s) - 1), cutset) ELSE s

\* strings.Trim(s, cutset)
Trim(s, cutset) == TrimRight(TrimLeft(s, cutset), cutset)

\* len(strings.Trim(r.ID, " ")) == 0
MissingID(id) == Len(Trim(id, {" "})) = 0

\* a replace that removes the rule found under the id and does not put the
\* new one in
StoreRule_RemoveOld(rs, r) == IF r.ID \in DOMAIN rs THEN Delete(rs, r.ID) ELSE Put(rs, r.ID, r)

\* e.rules[r.ID] = r
StoreRule(rs, r) == Put(rs, r.ID, r)

RECURSIVE AddRule(_, _)
\* an AddRule that undoes the programs of the rule that failed
AddRule_Rollback(e, rs) ==
    IF rs = <<>> THEN [e |-> e, err |-> NoError, stored |-> {}]
    ELSE LET r == Head(rs)
             a == addRuleWithSchema(e.programs, r, r.Schema)
         IN IF MissingID(r.ID)
            THEN [e |-> e, stored |-> {},
                  err |-> Errorf("Required rule ID for rule with expression", r.Expr)]
            ELSE IF a.err # NoError
            THEN [e |-> e, err |-> a.err, stored |-> {}]
            ELSE LET rest == AddRule([rules |-> StoreRule(e.rules, r),
                                      programs |-> a.programs], Tail(rs))
                 IN [rest EXCEPT !.stored = @ \cup {r.ID}]

\* AddRule(rules...): e is the engine [rules, programs]; returns the engine as
\* the call leaves it, the error, and the ids it put in the rule index
AddRule(e, rs) ==
    IF rs = <<>> THEN [e |-> e, err |-> NoError, stored |-> {}]
    ELSE LET r == Head(rs)
             a == addRuleWithSchema(e.programs, r, r.Schema)
         IN IF MissingID(r.ID)
            THEN [e |-> e, stored |-> {},
                  err |-> Errorf("Required rule ID for rule with expression", r.Expr)]
            ELSE IF a.err # NoError
            THEN [e |-> [e EXCEPT !.programs = a.programs], err |-> a.err, stored |-> {}]
            ELSE LET rest == AddRule([rules |-> StoreRule(e.rules, r),
                                      programs |-> a.programs], Tail(rs))
                 IN [rest EXCEPT !.stored = @ \cup {r.ID}]

\* Rule(id)
Rule(e, id) ==
    IF id \in DOMAIN e.rules THEN [rule |-> e.rules[id], ok |-> TRUE]
    ELSE [rule |-> Nil, ok |-> FALSE]

\* a RemoveRule that forgets the rule index
RemoveRule_ProgramOnly(e, id) == [rules |-> e.rules, programs |-> Delete(e.programs, id)]

\* a RemoveRule that takes the programs of the rule's children along
RemoveRule_WithChildren(e, id) ==
    LET kids == IF id \in DOMAIN e.rules
                THEN {e.rules[id].Rules[i].ID : i \in 1..Len(e.rules[id].Rules)}
                ELSE {}
    IN [rules |-> Delete(e.rules, id),
        programs |-> [k \in (DOMAIN e.programs) \ (kids \cup {id}) |-> e.programs[k]]]

\* RemoveRule(id)
RemoveRule(e, id) == [rules |-> Delete(e.rules, id), programs |-> Delete(e.programs, id)]

\* RuleCount()
RuleCount(e) == Cardinality(DOMAIN e.rules)


----------------------------------------------------------------------------
(* Evaluation *)

\* a rules.Rule
MkRule(id, expr, schema, self, opts, children) ==
    [ID |-> id, Expr |-> expr, Schema |-> schema, Self |-> self, Meta |-> Nil,
     Action |-> "", Opts |-> opts, Rules |-> children]

\* stands for a nil *rules.Result; never read where the code does not read it
NoResult ==
    [RuleID |-> <<>>, Meta |-> Nil, Action |-> "", Pass |-> FALSE, Value |-> Nil,
     Depth |-> 0, Results |-> EmptyMap]

\* an addSelf that leaves the key alone when the rule has no Self
addSelf_NoDelete(data, self) ==
    IF self # Nil THEN Put(data, SelfKey, self) ELSE data

\* addSelf(data, self)
addSelf(data, self) ==
    IF self # Nil THEN Put(data, SelfKey, self) ELSE Delete(data, SelfKey)

\* a depth guard that lets one level too many through
DepthExceeded_OffByOne(n, opt) == n > opt.MaxDepth + 1

\* n > opt.MaxDepth
DepthExceeded(n, opt) == n > opt.MaxDepth

\* program, found := e.programs[rule.ID]; program != nil && found
HasProgram(progs, id) == id \in DOMAIN progs

\* a parent check that tests for a passing parent
ParentStops_Positive(opt, pass) == opt.StopIfParentNegative /\ pass = TRUE

\* opt.StopIfParentNegative && pr.Pass == false
ParentStops(opt, pass) == opt.StopIfParentNegative /\ pass = FALSE

\* an admission test with the two options swapped
Admitted_Swapped(opt, pass) == (~pass /\ opt.ReturnPass) \/ (pass /\ opt.ReturnFail)

\* (!res.Pass && opt.ReturnFail) || (res.Pass && opt.ReturnPass)
Admitted(opt, pass) == (~pass /\ opt.ReturnFail) \/ (pass /\ opt.ReturnPass)

\* stop checks that continue the loop (break out of nothing) instead of
\* returning
ChildStops_NoReturn(opt, isNil, pass) ==
    IF (opt.StopFirstPositiveChild \/ opt.StopFirstNegativeChild) /\ isNil THEN "panic"
    ELSE "go"

\* the two stop checks after a child: res.Pass is read only when the option
\* is set, and reading it through a nil res is a nil pointer dereference
ChildStops(opt, isNil, pass) ==
    IF opt.StopFirstPositiveChild /\ isNil THEN "panic"
    ELSE IF opt.StopFirstPositiveChild /\ pass = TRUE THEN "stop"
    ELSE IF opt.StopFirstNegativeChild /\ isNil THEN "panic"
    ELSE IF opt.StopFirstNegativeChild /\ pass = FALSE THEN "stop"
    ELSE "go"

\* the record of one call of evaluate, kept when the call returns: where the
\* node is in the tree (path: child positions from the root), what it was
\* handed (optIn) and what it merged (opt), how it returned (st: ok, nil, err,
\* panic), whether its program ran
Visit(rule, n, optIn, opt, path, st, ran, res) ==
    [path |-> path, id |-> rule.ID, expr |-> rule.Expr, kids |-> Len(rule.Rules),
     n |-> n, optIn |-> optIn, opt |-> opt, st |-> st, ran |-> ran, res |-> res]

\* what evaluate returns: the result (st = nil: a nil result), the error, and
\* the data map, the program executions and the calls of evaluate so far
Outcome(st, res, err, s, visit) ==
    [st |-> st, res |-> res, err |-> err, data |-> s.data, execs |-> s.execs,
     visits |-> Append(s.visits, visit)]

RECURSIVE evaluate(_, _, _, _, _, _), evalChildren(_, _, _, _)
\* evaluate(data, rule, n, opt); s carries the data map and the two logs
evaluate(progs, rule, n, opt, path, s) ==
    IF DepthExceeded(n, opt)
    THEN Outcome("nil", NoResult, NoError, s,
                Visit(rule, n, opt, opt, path, "nil", FALSE, NoResult))
    ELSE
      LET o == ApplyOptions(opt, rule.Opts)
          found == HasProgram(progs, rule.ID)
          data1 == IF found THEN addSelf(s.data, rule.Self) ELSE s.data
          out == Eval(progs[rule.ID], data1)
          s1 == IF found
                THEN [s EXCEPT !.data = data1,
                               !.execs = Append(@, [path |-> path, id |-> rule.ID,
                                                    prg |-> progs[rule.ID], data |-> data1,
                                                    err |-> out.err])]
                ELSE s
          pr == [RuleID |-> rule.ID, Meta |-> rule.Meta, Action |-> rule.Action,
                 Results |-> EmptyMap, Depth |-> n,
                 Value |-> IF found THEN out.val ELSE BoolVal(TRUE),
                 Pass |-> IF found THEN IsTrue(out.val) ELSE TRUE]
      IN IF found /\ out.err # NoError
         THEN Outcome("err", NoResult, Wrap("Error evaluating rule", rule.ID, out.err), s1,
                     Visit(rule, n, opt, o, path, "err", TRUE, NoResult))
         ELSE IF ParentStops(o, pr.Pass)
         THEN Outcome("ok", pr, NoError, s1, Visit(rule, n, opt, o, path, "ok", found, pr))
         ELSE evalChildren([progs |-> progs, rule |-> rule, n |-> n, optIn |-> opt,
                            opt |-> o, path |-> path, ran |-> found], 1, pr, s1)

\* a loop that skips a child whose evaluation returned an error
evalChildren_SkipsError(ctx, i, pr, s) ==
    IF i > Len(ctx.rule.Rules)
    THEN Outcome("ok", pr, NoError, s,
                Visit(ctx.rule, ctx.n, ctx.optIn, ctx.opt, ctx.path, "ok", ctx.ran, pr))
    ELSE
      LET c == ctx.rule.Rules[i]
          r == evaluate(ctx.progs, c, ctx.n + 1, ctx.opt, Append(ctx.path, i), s)
          s2 == [data |-> r.data, execs |-> r.execs, visits |-> r.visits]
          pr2 == IF r.st = "ok" /\ Admitted(ctx.opt, r.res.Pass)
                 THEN [pr EXCEPT !.Results = Put(@, c.ID, r.res)]
                 ELSE pr
          stop == ChildStops(ctx.opt, r.st = "nil", r.res.Pass)
      IN IF r.st = "err"
         THEN evalChildren(ctx, i + 1, pr, s2)
         ELSE IF r.st = "panic" \/ stop = "panic"
         THEN Outcome("panic", NoResult, NoError, s2,
                     Visit(ctx.rule, ctx.n, ctx.optIn, ctx.opt, ctx.path, "panic", ctx.ran,
                           NoResult))
         ELSE IF stop = "stop"
         THEN Outcome("ok", pr2, NoError, s2,
                     Visit(ctx.rule, ctx.n, ctx.optIn, ctx.opt, ctx.path, "ok", ctx.ran, pr2))
         ELSE evalChildren(ctx, i + 1, pr2, s2)

\* the loop of evaluate over rule.Rules, from child i on; pr is the result
\* under construction
evalChildren(ctx, i, pr, s) ==
    IF i > Len(ctx.rule.Rules)
    THEN Outcome("ok", pr, NoError, s,
                Visit(ctx.rule, ctx.n, ctx.optIn, ctx.opt, ctx.path, "ok", ctx.ran, pr))
    ELSE
      LET c == ctx.rule.Rules[i]
          r == evaluate(ctx.progs, c, ctx.n + 1, ctx.opt, Append(ctx.path, i), s)
          s2 == [data |-> r.data, execs |-> r.execs, visits |-> r.visits]
          pr2 == IF r.st = "ok" /\ Admitted(ctx.opt, r.res.Pass)
                 THEN [pr EXCEPT !.Results = Put(@, c.ID, r.res)]
                 ELSE pr
          stop == ChildStops(ctx.opt, r.st = "nil", r.res.Pass)
      IN IF r.st \in {"err", "panic"}
         THEN Outcome(r.st, NoResult, r.err, s2,
                     Visit(ctx.rule, ctx.n, ctx.optIn, ctx.opt, ctx.path, r.st, ctx.ran,
                           NoResult))
         ELSE IF stop = "panic"
         THEN Outcome("panic", NoResult, NoError, s2,
                     Visit(ctx.rule, ctx.n, ctx.optIn, ctx.opt, ctx.path, "panic", ctx.ran,
                           NoResult))
         ELSE IF stop = "stop"
         THEN Outcome("ok", pr2, NoError, s2,
                     Visit(ctx.rule, ctx.n, ctx.optIn, ctx.opt, ctx.path, "ok", ctx.ran, pr2))
         ELSE evalChildren(ctx, i + 1, pr2, s2)

\* rule, ok := e.rules[id]
RuleFound(rs, id) == id \in DOMAIN rs

\* an Evaluate that drops the options of its caller
Evaluate_DropsOptions(e, data, id, opts) ==
    LET s == [data |-> data, execs |-> <<>>, visits |-> <<>>]
    IN IF ~RuleFound(e.rules, id)
       THEN [st |-> "err", res |-> NoResult, err |-> Errorf("Rule not found", <<>>),
             data |-> data, execs |-> <<>>, visits |-> <<>>]
       ELSE evaluate(e.programs, e.rules[id], 0, BaseOptions, <<>>, s)

\* Evaluate(data, id, opts...)
Evaluate(e, data, id, opts) ==
    LET o == ApplyOptions(BaseOptions, opts)
        s == [data |-> data, execs |-> <<>>, visits |-> <<>>]
    IN IF ~RuleFound(e.rules, id)
       THEN [st |-> "err", res |-> NoResult, err |-> Errorf("Rule not found", <<>>),
             data |-> data, execs |-> <<>>, visits |-> <<>>]
       ELSE evaluate(e.programs, e.rules[id], 0, o, <<>>, s)

\* evaluateProgram(data, prg)
evaluateProgram(data, prg) == Eval(prg, data)

\* a lookup that never finds the program
ProgramCached_Never(progs, expr) == FALSE

\* prg, found := e.programs[expr]
ProgramCached(progs, expr) == expr \in DOMAIN progs

\* the end of Calculate: the value of the program as a float64; added:
\* whether the call went through AddRule, stored: the ids that put in the
\* rule index
calculated64(e, out, added, stored) ==
    IF out.err # NoError
    THEN [e |-> e, val |-> DoubleVal("0"), err |-> out.err, added |-> added,
          stored |-> stored]
    ELSE IF out.val.type # "double"
    THEN [e |-> e, val |-> DoubleVal("0"), added |-> added, stored |-> stored,
          err |-> Errorf("could not be converted to float64", <<out.val.v>>)]
    ELSE [e |-> e, val |-> out.val, err |-> NoError, added |-> added,
          stored |-> stored]

\* Calculate when the expression was not present: a is what AddRule returned
calculateAdded(a, data, expr) ==
    IF a.err # NoError
    THEN [e |-> a.e, val |-> DoubleVal("0"), err |-> a.err, added |-> TRUE,
          stored |-> a.stored]
    ELSE calculated64(a.e, evaluateProgram(data, a.e.programs[expr]), TRUE, a.stored)

\* Calculate(data, expr, schema)
Calculate(e, data, expr, schema) ==
    IF ProgramCached(e.programs, expr)
    THEN calculated64(e, evaluateProgram(data, e.programs[expr]), FALSE, {})
    ELSE calculateAdded(AddRule(e, <<MkRule(expr, expr, schema, Nil, <<>>, <<>>)>>),
                        data, expr)

----------------------------------------------------------------------------
(* The inputs of the model *)

NoSchema == MkSchema("", <<>>)

SchemaXY == MkSchema("xy", <<Elem("x", Prim("Bool")), Elem("y", Prim("Float"))>>)

SchemaY ==
    MkSchema("y", <<Elem("y", Prim("Float")),
                    Elem("m", MapOf(Prim("String"), ListOf(Prim("Int"))))>>)

SchemaBad ==
    MkSchema("bad", <<Elem("x", Prim("Bool")), Elem("p", ProtoOf("pkg.Msg", FALSE))>>)

IdA == <<"a">>
IdB == <<"b">>
IdC == <<"c">>
IdD == <<"d">>
IdTab == <<"\t">>
IdSpace == <<" ">>
IdEmpty == <<>>

ExprX == <<"x">>
ExprNotX == <<"!", "x">>
ExprY == <<"y">>
ExprBad == <<"(">>

\* a rule without schema, self, options or children
Leaf(id, expr) == MkRule(id, expr, NoSchema, Nil, <<>>, <<>>)

\* a single rule a
RuleA == MkRule(IdA, ExprX, SchemaXY, Nil, <<>>, <<>>)

\* a again, now a grouping node, with a child that has no id
GroupA == MkRule(IdA, <<>>, SchemaXY, Nil, <<>>, <<Leaf(IdEmpty, ExprNotX)>>)

\* three children that evaluate to false, true, true when x is true
GroupB ==
    MkRule(IdB, <<>>, SchemaXY, Nil, <<>>,
           <<Leaf(IdC, ExprNotX),
             MkRule(IdD, ExprX, NoSchema, ObjVal("d"), <<>>, <<>>),
             Leaf(IdA, ExprX)>>)

\* three levels, with options of their own at the root and at a child
DeepB ==
    MkRule(IdB, ExprX, SchemaXY, Nil, <<BoolOpt("StopIfParentNegative", TRUE)>>,
           <<MkRule(IdC, <<>>, SchemaY, Nil, <<BoolOpt("ReturnPass", FALSE), MaxDepthOpt(2)>>,
                    <<Leaf(IdD, ExprY)>>),
             Leaf(IdEmpty, ExprNotX)>>)

\* fails to compile at its second child
HalfB ==
    MkRule(IdB, <<>>, SchemaXY, Nil, <<>>, <<Leaf(IdC, ExprNotX), Leaf(IdD, ExprBad)>>)

\* an id that is a tab, and one that is a space
RuleTab == MkRule(IdTab, ExprX, SchemaXY, Nil, <<>>, <<>>)

RuleSpace == MkRule(IdSpace, ExprX, SchemaXY, Nil, <<>>, <<>>)

RuleNoSchema == MkRule(IdA, ExprX, NoSchema, Nil, <<>>, <<>>)

RuleBadSchema == MkRule(IdA, ExprX, SchemaBad, Nil, <<>>, <<>>)

RuleBadExpr == MkRule(IdA, ExprBad, SchemaXY, Nil, <<>>, <<>>)

\* a grouping node without a schema anywhere in its tree
GroupNoSchema == MkRule(IdB, <<>>, NoSchema, Nil, <<>>, <<Leaf(IdC, ExprX)>>)

\* the rules handed to AddRule one at a time
RuleInputs ==
    {RuleA, GroupA, GroupB, DeepB, HalfB, RuleTab, RuleSpace, RuleNoSchema,
     RuleBadSchema, RuleBadExpr, GroupNoSchema}

\* the rules handed to AddRule several at a time
BatchInputs == {RuleA, HalfB, GroupB}

RECURSIVE SeqsUpTo(_, _)
\* the sequences over S of length 1..n
SeqsUpTo(S, n) ==
    IF n = 0 THEN {}
    ELSE LET shorter == SeqsUpTo(S, n - 1)
         IN {<<x>> : x \in S} \cup shorter \cup
            {Append(q, x) : q \in shorter, x \in S}

\* one rule, or several different ones
AddRuleInputs ==
    {<<r>> : r \in RuleInputs} \cup
    {rs \in SeqsUpTo(BatchInputs, MaxAddRules) :
       \A i, j \in DOMAIN rs : i # j => rs[i] # rs[j]}

\* the ids handed to Evaluate and Rule, and those handed to RemoveRule
IdInputs == {IdA, IdB}

RemoveInputs == {IdA, ExprY}

DataInputs ==
    {[x |-> BoolVal(TRUE), y |-> DoubleVal("1.5")],
     [x |-> BoolVal(FALSE), y |-> DoubleVal("1.5")],
     [self |-> ObjVal("stale")],
     [x |-> BoolVal(TRUE)]}

\* the option lists handed to Evaluate: at most one MaxDepth, at most one flag
DepthOptions == {<<>>} \cup {<<MaxDepthOpt(n)>> : n \in 0..MaxDepthOption}

FlagOptions ==
    {BoolOpt("StopFirstNegativeChild", TRUE), BoolOpt("StopIfParentNegative", TRUE),
     BoolOpt("ReturnFail", FALSE), BoolOpt("ReturnPass", FALSE)}

OptionInputs ==
    {<<f>> : f \in FlagOptions} \cup
    {d \o f : d \in DepthOptions, f \in {<<>>, <<BoolOpt("StopFirstPositiveChild", TRUE)>>}}

ExprInputs == {ExprY, IdA, IdSpace}

SchemaInputs == {SchemaXY, NoSchema}

----------------------------------------------------------------------------
(* The engine as a state machine.  The caller makes one call at a time    *)
(* (section 5 of the design: single threaded, every operation runs to      *)
(* completion): a call is one step, which leaves its outcome in last, and   *)
(* the caller takes the outcome (Return) before its next call.             *)

engine == [rules |-> rules, programs |-> programs]

NoCall ==
    [op |-> "", id |-> <<>>, args |-> <<>>, data |-> EmptyMap, opts |-> <<>>,
     schema |-> NoSchema, st |-> "", res |-> NoResult, err |-> NoError,
     execs |-> <<>>, visits |-> <<>>, dataOut |-> EmptyMap, val |-> Nil,
     added |-> FALSE, again |-> FALSE, ok |-> FALSE]

\* the goroutines that call Evaluate at the same time
Goroutines == {1, 2}

\* a goroutine that has not called Evaluate
NoEvaluate ==
    [pc |-> "idle", data |-> EmptyMap, id |-> <<>>, opts |-> <<>>, stack |-> <<>>,
     st |-> "", res |-> NoResult, err |-> NoError, mixed |-> FALSE]

\* the zero rules.Result of package rules (src/rules.go)
ZeroResult ==
    [RuleSetID |-> "", RuleID |-> 0, Pass |-> FALSE, Float64Value |-> 0, Int64Value |-> 0,
     StringValue |-> "", ResultType |-> Nil]

\* no EvaluateUntilTrue call made
NoUntilTrue ==
    [pc |-> "idle", ruleSetID |-> "", sets |-> EmptyMap, pending |-> {}, log |-> <<>>,
     res |-> ZeroResult, err |-> NoError]

\* NewEngine()
Init ==
    /\ rules = EmptyMap
    /\ programs = EmptyMap
    /\ last = NoCall
    /\ prev = <<>>
    /\ removed = {}
    /\ calculated = {}
    /\ calls = [p \in Goroutines |-> NoEvaluate]
    /\ maps = [p \in Goroutines |-> EmptyMap]
    /\ until = NoUntilTrue

Idle == last = NoCall

CallAddRule ==
    \E rs \in AddRuleInputs :
      LET a == AddRule(engine, rs) IN
        /\ Idle
        /\ prev' = prev
        /\ rules' = a.e.rules
        /\ programs' = a.e.programs
        /\ removed' = removed \ a.stored
        /\ calculated' = calculated
        /\ UNCHANGED <<calls, maps, until>>
        /\ last' = [NoCall EXCEPT !.op = "AddRule", !.args = rs, !.err = a.err,
                       !.again = (prev = rs)]

CallRemoveRule ==
    \E id \in RemoveInputs :
      LET e == RemoveRule(engine, id) IN
        /\ Idle
        /\ prev' = prev
        /\ rules' = e.rules
        /\ programs' = e.programs
        /\ removed' = removed \cup {id}
        /\ calculated' = calculated \ {id}
        /\ UNCHANGED <<calls, maps, until>>
        /\ last' = [NoCall EXCEPT !.op = "RemoveRule", !.id = id,
                       !.args = IF RuleFound(rules, id) THEN <<rules[id]>> ELSE <<>>]

CallRule ==
    \E id \in IdInputs :
      LET r == Rule(engine, id) IN
        /\ Idle
        /\ last' = [NoCall EXCEPT !.op = "Rule", !.id = id, !.ok = r.ok]
        /\ UNCHANGED <<rules, programs, prev, removed, calculated, calls, maps, until>>

CallRuleCount ==
    /\ Idle
    /\ last' = [NoCall EXCEPT !.op = "RuleCount",
                   !.val = [type |-> "int", v |-> ToString(RuleCount(engine))]]
    /\ UNCHANGED <<rules, programs, prev, removed, calculated, calls, maps, until>>

CallEvaluate ==
    \E data \in DataInputs, id \in IdInputs, opts \in OptionInputs :
      LET r == Evaluate(engine, data, id, opts) IN
        /\ Idle
        /\ last' = [NoCall EXCEPT !.op = "Evaluate", !.id = id, !.data = data,
                       !.opts = opts, !.st = r.st, !.res = r.res, !.err = r.err,
                       !.execs = r.execs, !.visits = r.visits, !.dataOut = r.data]
        /\ UNCHANGED <<rules, programs, prev, removed, calculated, calls, maps, until>>

CallCalculate ==
    \E data \in DataInputs, expr \in ExprInputs, schema \in SchemaInputs :
      LET c == Calculate(engine, data, expr, schema) IN
        /\ Idle
        /\ prev' = prev
        /\ rules' = c.e.rules
        /\ programs' = c.e.programs
        /\ removed' = removed \ c.stored
        /\ calculated' = IF c.added /\ c.stored # {} THEN calculated \cup {expr}
                         ELSE calculated
        /\ UNCHANGED <<calls, maps, until>>
        /\ last' = [NoCall EXCEPT !.op = "Calculate", !.id = expr, !.data = data,
                       !.schema = schema, !.err = c.err, !.val = c.val,
                       !.added = c.added]

\* the caller takes the outcome of the call
Return ==
    /\ ~Idle
    /\ last' = NoCall
    /\ prev' = IF last.op = "AddRule" /\ last.err = NoError THEN last.args ELSE <<>>
    /\ UNCHANGED <<rules, programs, removed, calculated, calls, maps, until>>

Next ==
    \/ CallAddRule
    \/ CallRemoveRule
    \/ CallRule
    \/ CallRuleCount
    \/ CallEvaluate
    \/ CallCalculate
    \/ Return

Spec == Init /\ [][Next]_vars

----------------------------------------------------------------------------
(* Evaluate calls that run at the same time.  Each goroutine runs Evaluate *)
(* statement by statement; a step is one read of the engine's maps, one    *)
(* write to the call's data map or one program run, with the local         *)
(* computation around it.  evaluate's recursion is the stack of the call.  *)
(* Nobody adds or removes rules meanwhile.  A nil pointer dereference in   *)
(* one goroutine ends the program.                                         *)

\* the engines the calls run on: one registered tree each
ConcurrentEngines ==
    {AddRule([rules |-> EmptyMap, programs |-> EmptyMap], <<r>>).e : r \in {GroupB, DeepB}}

ConcurrentOptions ==
    {<<>>, <<BoolOpt("StopFirstPositiveChild", TRUE)>>, <<MaxDepthOpt(MaxDepthOption)>>,
     <<MaxDepthOpt(0), BoolOpt("StopFirstNegativeChild", TRUE)>>}

\* all goroutines working on one and the same data map
MapOfCall_Shared(p) == 1

\* the data map of the call of goroutine p: the caller's own
MapOfCall(p) == p

\* one activation of evaluate(data, rule, n, opt): where it is (at), the
\* options it merged, the result under construction, the child it is at
Frame(rule, n, optIn) ==
    [rule |-> rule, n |-> n, optIn |-> optIn, opt |-> optIn, pr |-> NoResult, i |-> 1,
     at |-> "enter"]

RECURSIVE Returns(_, _, _, _)
\* an activation of evaluate returns (st, res) to the activation on top of
\* stack, which admits the result and looks at the stop options; with an
\* empty stack it returns to Evaluate, which returns to the caller
Returns(c, stack, st, res) ==
    IF stack = <<>>
    THEN [c EXCEPT !.pc = "done", !.stack = <<>>, !.st = st, !.res = res]
    ELSE LET f == stack[Len(stack)]
             child == f.rule.Rules[f.i]
             pr2 == IF st = "ok" /\ Admitted(f.opt, res.Pass)
                    THEN [f.pr EXCEPT !.Results = Put(@, child.ID, res)]
                    ELSE f.pr
             stop == ChildStops(f.opt, st = "nil", res.Pass)
         IN IF stop = "panic"
            THEN [c EXCEPT !.pc = "done", !.stack = <<>>, !.st = "panic"]
            ELSE IF stop = "stop"
            THEN Returns(c, SubSeq(stack, 1, Len(stack) - 1), "ok", pr2)
            ELSE [c EXCEPT !.stack = [stack EXCEPT ![Len(stack)] =
                                         [f EXCEPT !.pr = pr2, !.i = f.i + 1]]]

Crashed == \E q \in Goroutines : calls[q].st = "panic"

\* goroutine p is inside evaluate at the statement named
At(p, at) ==
    /\ ~Crashed
    /\ calls[p].pc = "run"
    /\ calls[p].stack[Len(calls[p].stack)].at = at

Top(p) == calls[p].stack[Len(calls[p].stack)]

Callers(p) == SubSeq(calls[p].stack, 1, Len(calls[p].stack) - 1)

\* the call of p after a step: mixed records that another call was under way
Stepped(p, c) ==
    [c EXCEPT !.mixed = @ \/ \E q \in Goroutines \ {p} : calls[q].pc = "run"]

\* the top activation of p moves on
Moved(p, f) == [calls[p] EXCEPT !.stack[Len(calls[p].stack)] = f]

ConcurrentInit ==
    /\ \E e \in ConcurrentEngines : rules = e.rules /\ programs = e.programs
    /\ last = NoCall
    /\ prev = <<>>
    /\ removed = {}
    /\ calculated = {}
    /\ calls = [p \in Goroutines |-> NoEvaluate]
    /\ maps = [p \in Goroutines |-> EmptyMap]
    /\ until = NoUntilTrue

\* Evaluate(data, id, opts...) up to the call of evaluate
Begin(p) ==
    \E data \in DataInputs, id \in IdInputs, opts \in ConcurrentOptions :
      LET c == [calls[p] EXCEPT !.data = data, !.id = id, !.opts = opts] IN
        /\ ~Crashed
        /\ calls[p].pc = "idle"
        /\ maps' = [maps EXCEPT ![MapOfCall(p)] = data]
        /\ calls' = [calls EXCEPT ![p] =
               Stepped(p, IF ~RuleFound(rules, id)
                          THEN [c EXCEPT !.pc = "done", !.st = "err",
                                         !.err = Errorf("Rule not found", <<>>)]
                          ELSE [c EXCEPT !.pc = "run",
                                  !.stack = <<Frame(rules[id], 0,
                                                    ApplyOptions(BaseOptions, opts))>>])]
        /\ UNCHANGED <<rules, programs, last, prev, removed, calculated, until>>

\* evaluate: the depth guard, the merge of the rule's options and the lookup
\* of the program
Enter(p) ==
    LET f == Top(p)
        o == ApplyOptions(f.optIn, f.rule.Opts)
        pr == [RuleID |-> f.rule.ID, Meta |-> f.rule.Meta, Action |-> f.rule.Action,
               Results |-> EmptyMap, Depth |-> f.n, Value |-> BoolVal(TRUE), Pass |-> TRUE]
    IN /\ At(p, "enter")
       /\ calls' = [calls EXCEPT ![p] =
              Stepped(p, IF DepthExceeded(f.n, f.optIn)
                         THEN Returns(calls[p], Callers(p), "nil", NoResult)
                         ELSE Moved(p, [f EXCEPT !.opt = o, !.pr = pr,
                                           !.at = IF HasProgram(programs, f.rule.ID)
                                                  THEN "self" ELSE "parent"]))]
       /\ UNCHANGED <<rules, programs, last, prev, removed, calculated, maps, until>>

\* evaluate: addSelf(data, rule.Self)
AddSelf(p) ==
    /\ At(p, "self")
    /\ maps' = [maps EXCEPT ![MapOfCall(p)] = addSelf(@, Top(p).rule.Self)]
    /\ calls' = [calls EXCEPT ![p] = Stepped(p, Moved(p, [Top(p) EXCEPT !.at = "eval"]))]
    /\ UNCHANGED <<rules, programs, last, prev, removed, calculated, until>>

\* evaluate: program.Eval(data); an error ends the whole call
RunProgram(p) ==
    LET f == Top(p)
        out == Eval(programs[f.rule.ID], maps[MapOfCall(p)])
    IN /\ At(p, "eval")
       /\ calls' = [calls EXCEPT ![p] =
              Stepped(p, IF out.err # NoError
                         THEN [calls[p] EXCEPT !.pc = "done", !.stack = <<>>, !.st = "err",
                                 !.err = Wrap("Error evaluating rule", f.rule.ID, out.err)]
                         ELSE Moved(p, [f EXCEPT !.pr.Value = out.val,
                                                 !.pr.Pass = IsTrue(out.val),
                                                 !.at = "parent"]))]
       /\ UNCHANGED <<rules, programs, last, prev, removed, calculated, maps, until>>

\* evaluate: the StopIfParentNegative check
CheckParent(p) ==
    LET f == Top(p)
    IN /\ At(p, "parent")
       /\ calls' = [calls EXCEPT ![p] =
              Stepped(p, IF ParentStops(f.opt, f.pr.Pass)
                         THEN Returns(calls[p], Callers(p), "ok", f.pr)
                         ELSE Moved(p, [f EXCEPT !.at = "child"]))]
       /\ UNCHANGED <<rules, programs, last, prev, removed, calculated, maps, until>>

\* evaluate: the loop over rule.Rules calls evaluate on the next child, or
\* ends and returns the result
NextChild(p) ==
    LET f == Top(p)
    IN /\ At(p, "child")
       /\ calls' = [calls EXCEPT ![p] =
              Stepped(p, IF f.i > Len(f.rule.Rules)
                         THEN Returns(calls[p], Callers(p), "ok", f.pr)
                         ELSE [calls[p] EXCEPT !.stack =
                                 Append(@, Frame(f.rule.Rules[f.i], f.n + 1, f.opt))])]
       /\ UNCHANGED <<rules, programs, last, prev, removed, calculated, maps, until>>

ConcurrentNext ==
    \E p \in Goroutines :
      \/ Begin(p)
      \/ Enter(p)
      \/ AddSelf(p)
      \/ RunProgram(p)
      \/ CheckParent(p)
      \/ NextChild(p)

ConcurrentSpec == ConcurrentInit /\ [][ConcurrentNext]_vars

----------------------------------------------------------------------------
(* EvaluateUntilTrue of package rules (src/rules.go), a helper for any      *)
(* implementation of the Engine interface.  The engine is what the helper  *)
(* sees of it: RuleSet(id) and EvaluateRule(data, ruleSetID, ruleID).  The  *)
(* rule ids of a set are 1..n; the engine's answer for a rule on the data   *)
(* of the call is pass, fail or error.  The loop ranges over a Go map: the  *)
(* order of the rules is any order.                                        *)

Answers == {"pass", "fail", "error"}

\* the rule sets an engine holds: none, or the set "s" with up to MaxRuleSet
\* rules, given by the engine's answer for each rule
RuleSetInputs ==
    {EmptyMap} \cup
    UNION {{[id \in {"s"} |-> a] : a \in [1..n -> Answers]} : n \in 0..MaxRuleSet}

RuleSetIDInputs == {"s", "t"}

\* e.RuleSet(ruleSetID): found
RuleSetFound(sets, ruleSetID) == ruleSetID \in DOMAIN sets

\* e.EvaluateRule(data, ruleSetID, ruleID): the *Result and the error
EvaluateRule(sets, ruleSetID, ruleID) ==
    IF sets[ruleSetID][ruleID] = "error"
    THEN [res |-> ZeroResult, err |-> Errorf("evaluating", <<ruleID>>)]
    ELSE [res |-> [ZeroResult EXCEPT !.RuleSetID = ruleSetID, !.RuleID = ruleID,
                                     !.Pass = (sets[ruleSetID][ruleID] = "pass")],
          err |-> NoError]

\* a loop that does not look at the result
PassStops_Never(result) == FALSE

\* if result.Pass
PassStops(result) == result.Pass

UntilTrueInit ==
    /\ rules = EmptyMap
    /\ programs = EmptyMap
    /\ last = NoCall
    /\ prev = <<>>
    /\ removed = {}
    /\ calculated = {}
    /\ calls = [p \in Goroutines |-> NoEvaluate]
    /\ maps = [p \in Goroutines |-> EmptyMap]
    /\ until = NoUntilTrue

\* EvaluateUntilTrue(e, data, ruleSetID) up to the loop
UntilTrueCall ==
    \E sets \in RuleSetInputs, id \in RuleSetIDInputs :
      /\ until.pc = "idle"
      /\ until' = IF ~RuleSetFound(sets, id)
                   THEN [until EXCEPT !.pc = "done", !.sets = sets, !.ruleSetID = id,
                                      !.err = Errorf("Ruleset not found", <<>>)]
                   ELSE [until EXCEPT !.pc = "range", !.sets = sets, !.ruleSetID = id,
                                      !.pending = DOMAIN sets[id]]
      /\ UNCHANGED <<rules, programs, last, prev, removed, calculated, calls, maps>>

\* one iteration of for ruleID := range ruleSet.Rules
UntilTrueRange ==
    \E ruleID \in until.pending :
      LET r == EvaluateRule(until.sets, until.ruleSetID, ruleID)
          log == Append(until.log, [ruleID |-> ruleID, res |-> r.res, err |-> r.err])
      IN /\ until.pc = "range"
         /\ until' = IF r.err # NoError
                      THEN [until EXCEPT !.pc = "done", !.log = log, !.res = ZeroResult,
                                         !.err = Wrap("Error evaluating rule", <<>>, r.err)]
                      ELSE IF PassStops(r.res)
                      THEN [until EXCEPT !.pc = "done", !.log = log, !.res = r.res]
                      ELSE [until EXCEPT !.log = log, !.pending = @ \ {ruleID}]
         /\ UNCHANGED <<rules, programs, last, prev, removed, calculated, calls, maps>>

\* the range is over: return Result{}, nil
UntilTrueEnd ==
    /\ until.pc = "range"
    /\ until.pending = {}
    /\ until' = [until EXCEPT !.pc = "done", !.res = ZeroResult]
    /\ UNCHANGED <<rules, programs, last, prev, removed, calculated, calls, maps>>

UntilTrueNext ==
    \/ UntilTrueCall
    \/ UntilTrueRange
    \/ UntilTrueEnd

UntilTrueSpec == UntilTrueInit /\ [][UntilTrueNext]_vars


----------------------------------------------------------------------------
(* What the claims speak about: the calls of evaluate made by the last     *)
(* Evaluate call, and the program executions it made.                      *)

Evaluated == last.op = "Evaluate"

Visits == {last.visits[i] : i \in DOMAIN last.visits}

Execs == {last.execs[i] : i \in DOMAIN last.execs}

\* p is a proper prefix of q: the node at q is a descendant of the node at p
Below(p, q) == Len(p) < Len(q) /\ SubSeq(q, 1, Len(p)) = p

\* the calls of evaluate on the children of the node of visit v
ChildVisits(v) == {c \in Visits : Len(c.path) = Len(v.path) + 1 /\ Below(v.path, c.path)}

\* the position of a node among its parent's children
Position(v) == v.path[Len(v.path)]

\* the place of a visit in the log: evaluate calls return in the order in
\* which siblings are evaluated
LogIndex(v) == CHOOSE i \in DOMAIN last.visits : last.visits[i] = v

RECURSIVE ResultsIn(_)
\* every Result of a result tree
ResultsIn(res) ==
    {res} \cup UNION {ResultsIn(res.Results[c]) : c \in DOMAIN res.Results}

\* the Results anywhere in what the last Evaluate returned
Returned == IF Evaluated /\ last.st = "ok" THEN ResultsIn(last.res) ELSE {}

----------------------------------------------------------------------------
\* C1: every evaluated node with an empty Expr gets Pass = true and
\* Value = true in its Result, whatever the data (refuted: a program stored
\* earlier under the same id is run for it)
C1_EmptyExprPasses ==
    Evaluated =>
      \A v \in Visits :
        (v.expr = <<>> /\ v.st = "ok") =>
          (v.res.Pass = TRUE /\ v.res.Value = BoolVal(TRUE))

\* C2: no node deeper than the MaxDepth of the options handed to it has its
\* program executed or gets a Result anywhere in the returned tree
C2_NothingBeyondMaxDepth ==
    Evaluated =>
      /\ \A v \in Visits :
           Len(v.path) > v.optIn.MaxDepth => (~v.ran /\ v.st = "nil")
      /\ \A x \in Execs :
           \E v \in Visits : v.path = x.path /\ Len(v.path) <= v.optIn.MaxDepth
      /\ \A r \in Returned :
           \E v \in Visits :
             v.st = "ok" /\ v.res = r /\ Len(v.path) <= v.optIn.MaxDepth

\* C2 witness: an Evaluate that returned a Result and left out a node beyond
\* MaxDepth that has a program of its own
C2_Witness ==
    /\ Evaluated
    /\ last.st = "ok"
    /\ \E v \in Visits :
         v.st = "nil" /\ Len(v.path) > v.optIn.MaxDepth /\ v.id \in DOMAIN programs

\* C3: with a child beyond MaxDepth the Evaluate call completes normally,
\* under every combination of options: the parent's Result without an entry
\* for the child, and no error (refuted: with StopFirstPositiveChild or
\* StopFirstNegativeChild set the call ends in a nil pointer dereference)
C3_DepthExceededChildIsSkipped ==
    (/\ Evaluated
     /\ \E v \in Visits : v.st = "nil" /\ v.path # <<>>
     /\ \A x \in Execs : x.err = NoError)
    => /\ last.st = "ok"
       /\ last.err = NoError
       /\ \A v \in Visits :
            (v.st = "nil" /\ v.path # <<>>) =>
              \E p \in Visits :
                /\ v \in ChildVisits(p)
                /\ p.st = "ok"
                /\ v.id \notin DOMAIN p.res.Results

\* C4: children are evaluated in their declared order, and with
\* StopFirstPositiveChild in effect at a node nothing after the first child
\* that passed is evaluated or has an entry in Results; the same for
\* StopFirstNegativeChild and the first child that failed
C4_StopFirstChild ==
    Evaluated =>
      \A p \in Visits :
        /\ \A c \in ChildVisits(p) :
             \* the children evaluated so far are the children 1..Position(c), in order
             /\ \A k \in 1..(Position(c) - 1) :
                  \E b \in ChildVisits(p) : Position(b) = k /\ LogIndex(b) < LogIndex(c)
             /\ LogIndex(c) < LogIndex(p)
        /\ \A c \in ChildVisits(p) :
             (/\ c.st = "ok"
              /\ \/ p.opt.StopFirstPositiveChild /\ c.res.Pass = TRUE
                 \/ p.opt.StopFirstNegativeChild /\ c.res.Pass = FALSE)
             => /\ \A v \in Visits : Below(p.path, v.path) =>
                     v.path[Len(p.path) + 1] <= Position(c)
                /\ \A x \in Execs : Below(p.path, x.path) =>
                     x.path[Len(p.path) + 1] <= Position(c)
                /\ p.st = "ok" =>
                     \A id \in DOMAIN p.res.Results :
                       \E b \in ChildVisits(p) :
                         b.id = id /\ Position(b) <= Position(c)

\* C4 witness: children false, true, true under StopFirstPositiveChild: the
\* second child stopped the loop and its parent has a third child
C4_Witness ==
    /\ Evaluated
    /\ \E p \in Visits :
         /\ p.opt.StopFirstPositiveChild
         /\ p.st = "ok"
         /\ p.kids = 3
         /\ \E b, c \in ChildVisits(p) :
              /\ Position(b) = 1 /\ b.st = "ok" /\ b.res.Pass = FALSE
              /\ Position(c) = 2 /\ c.st = "ok" /\ c.res.Pass = TRUE

\* C5: with StopIfParentNegative in effect at a node whose own Pass is false,
\* no child of the node is evaluated, no descendant program is executed and
\* the node's Results map is empty
C5_StopIfParentNegative ==
    Evaluated =>
      \A p \in Visits :
        (p.opt.StopIfParentNegative /\ p.st = "ok" /\ p.res.Pass = FALSE) =>
          /\ \A v \in Visits : ~Below(p.path, v.path)
          /\ \A x \in Execs : ~Below(p.path, x.path)
          /\ DOMAIN p.res.Results = {}

\* C5 witness: a node with children whose own program gave false under
\* StopIfParentNegative
C5_Witness ==
    /\ Evaluated
    /\ \E p \in Visits :
         /\ p.opt.StopIfParentNegative
         /\ p.st = "ok"
         /\ p.ran
         /\ p.res.Pass = FALSE
         /\ p.kids > 0

\* child visit c is admitted under the options merged at its parent p
AdmittedBy(p, c) ==
    /\ c.st = "ok"
    /\ \/ c.res.Pass = FALSE /\ p.opt.ReturnFail
       \/ c.res.Pass = TRUE /\ p.opt.ReturnPass

\* C6: in every Result, Results holds an entry under child id c exactly when
\* child c was evaluated to a non-nil result and admitted by ReturnFail or
\* ReturnPass as merged at the parent, and the entry is that child's own
\* Result; whether the parent was admitted itself plays no part
C6_ResultsAdmission ==
    Evaluated =>
      \A p \in Visits :
        p.st = "ok" =>
          /\ \A c \in ChildVisits(p) : AdmittedBy(p, c) => c.id \in DOMAIN p.res.Results
          /\ \A id \in DOMAIN p.res.Results :
               \E c \in ChildVisits(p) :
                 c.id = id /\ AdmittedBy(p, c) /\ p.res.Results[id] = c.res

\* C6 witness: a node g with a child b admitted and a child p left out, where
\* p, not admitted itself, holds its own admitted child c
C6_Witness ==
    /\ Evaluated
    /\ last.st = "ok"
    /\ \E g \in Visits :
         /\ g.st = "ok"
         /\ \E b, p \in ChildVisits(g) :
              /\ AdmittedBy(g, b) /\ b.id \in DOMAIN g.res.Results
              /\ p.st = "ok" /\ ~AdmittedBy(g, p) /\ p.id \notin DOMAIN g.res.Results
              /\ \E c \in ChildVisits(p) :
                   AdmittedBy(p, c) /\ c.id \in DOMAIN p.res.Results


NotFound == Errorf("Rule not found", <<>>)

\* C7: after RemoveRule(id), until an AddRule or Calculate call puts id in
\* the rule index again, Evaluate(data, id) returns a not-found error with a
\* nil Result and Rule(id) reports not found
C7_RemovedIsNotFound ==
    /\ \A id \in removed :
         /\ Rule(engine, id).ok = FALSE
         /\ \A data \in DataInputs, opts \in OptionInputs :
              LET r == Evaluate(engine, data, id, opts)
              IN r.st = "err" /\ r.err = NotFound /\ r.res = NoResult
    /\ (Evaluated /\ last.id \in removed) =>
         (last.st = "err" /\ last.err = NotFound /\ last.res = NoResult)
    /\ (last.op = "Rule" /\ last.id \in removed) => ~last.ok

\* C7 witness: Evaluate of a removed id came back not found, although a
\* program is stored under the id again (put there by a tree that holds the
\* id as a child)
C7_Witness ==
    /\ Evaluated
    /\ last.id \in removed
    /\ last.err = NotFound
    /\ last.id \in DOMAIN programs

\* what Evaluate returns to its caller
Answer(r) == [st |-> r.st, res |-> r.res, err |-> r.err]

\* C8: a second AddRule(r) right after a successful AddRule(r) leaves the
\* engine so that Evaluate(data, r.ID, opts) returns what it returned after
\* the first, for every data map and option list
C8_AddRuleTwice ==
    [][(/\ last'.op = "AddRule"
        /\ last'.again
        /\ Len(last'.args) = 1)
       => \A data \in DataInputs, opts \in OptionInputs :
            Answer(Evaluate([rules |-> rules', programs |-> programs'], data,
                            last'.args[1].ID, opts))
            = Answer(Evaluate(engine, data, last'.args[1].ID, opts))]_vars

\* C8 witness: a tree with children was added twice in a row
C8_Witness ==
    /\ last.op = "AddRule"
    /\ last.again
    /\ last.err = NoError
    /\ Len(last.args) = 1
    /\ last.args[1].Rules # <<>>
    /\ last.args[1].ID \in DOMAIN rules

\* C9: once Calculate has compiled and registered x, every later
\* Calculate(_, x, _) with no RemoveRule(x) in between runs the stored
\* program and neither compiles nor registers, whatever data and schema it
\* is given
C9_CalculateReuses ==
    [][(last'.op = "Calculate" /\ last'.id \in calculated)
       => /\ ~last'.added
          /\ rules' = rules
          /\ programs' = programs
          /\ last'.id \in DOMAIN programs
          /\ LET out == Eval(programs[last'.id], last'.data)
             IN /\ last'.err = NoError => last'.val = out.val
                /\ out.err # NoError => last'.err = out.err]_vars

\* C9 witness: a later Calculate of a registered expression, given a schema
\* that could not be compiled against, returned the value
C9_Witness ==
    /\ last.op = "Calculate"
    /\ last.id \in calculated
    /\ ~last.added
    /\ last.schema = NoSchema
    /\ last.err = NoError
    /\ last.val.type = "double"

Whitespace == {" ", "\t", "\n", "\r"}

Blank(id) == Len(Trim(id, Whitespace)) = 0

\* C10: AddRule rejects every rule whose id is empty after trimming
\* whitespace, so no key of the rule index or of the program index is an
\* empty or whitespace-only id (refuted: the ids of child rules are not
\* looked at, and only spaces are trimmed)
C10_NoBlankKey ==
    /\ \A id \in (DOMAIN rules) \cup (DOMAIN programs) : ~Blank(id)
    /\ (last.op = "AddRule" /\ last.err = NoError) =>
         \A i \in DOMAIN last.args : ~Blank(last.args[i].ID)

----------------------------------------------------------------------------
(* The trees handed to the last AddRule call, node by node.  A node is     *)
(* named by the position of its tree in the call and its path in the tree. *)

RECURSIVE Paths(_)
\* the paths of the nodes of a tree
Paths(r) ==
    {<<>>} \cup UNION {{<<i>> \o q : q \in Paths(r.Rules[i])} : i \in 1..Len(r.Rules)}

RECURSIVE NodeAt(_, _)
NodeAt(r, p) == IF p = <<>> THEN r ELSE NodeAt(r.Rules[Head(p)], Tail(p))

RECURSIVE NearestSchema(_, _, _)
\* the schema of the nearest node on the path p from the root r, the node at
\* p included, whose Schema is non-empty; s (the empty schema at the root) if
\* there is none
NearestSchema(r, p, s) ==
    LET s1 == IF Len(r.Schema.Elements) > 0 THEN r.Schema ELSE s
    IN IF p = <<>> THEN s1 ELSE NearestSchema(r.Rules[Head(p)], Tail(p), s1)

RECURSIVE Preorder(_, _)
\* the node at p is compiled before the node at q of the same tree
Preorder(p, q) ==
    IF p = <<>> THEN q # <<>>
    ELSE IF q = <<>> THEN FALSE
    ELSE IF Head(p) # Head(q) THEN Head(p) < Head(q)
    ELSE Preorder(Tail(p), Tail(q))

\* the nodes of the trees rs handed to AddRule
Nodes(rs) == UNION {{<<k, p>> : p \in Paths(rs[k])} : k \in DOMAIN rs}

NodeOf(rs, n) == NodeAt(rs[n[1]], n[2])

\* those with an expression
ExprNodes(rs) == {n \in Nodes(rs) : NodeOf(rs, n).Expr # <<>>}

\* node n is compiled before node m in the call
CompiledBefore(n, m) == n[1] < m[1] \/ (n[1] = m[1] /\ Preorder(n[2], m[2]))

\* no node of the set compiled later has the id of n: the program index holds
\* the program of n under its id when the call returns
LastOfItsId(rs, among, n) ==
    \A m \in among : CompiledBefore(n, m) => NodeOf(rs, m).ID # NodeOf(rs, n).ID

\* C11: in AddRule every node is compiled against the schema of the nearest
\* node on its path from the root, itself included, whose Schema is
\* non-empty; when there is no such node the call fails with the error
\* "No valid schema for rule" naming the rule, also when the node has no Expr
C11_NearestSchema ==
    /\ (last.op = "AddRule" /\ last.err = NoError) =>
         \A n \in ExprNodes(last.args) :
           LET node == NodeOf(last.args, n)
               s == NearestSchema(last.args[n[1]], n[2], NoSchema)
           IN /\ Len(s.Elements) > 0
              /\ LastOfItsId(last.args, ExprNodes(last.args), n) =>
                   /\ node.ID \in DOMAIN programs
                   /\ programs[node.ID].expr = node.Expr
                   /\ programs[node.ID].decls = schemaToDeclarations(s).decls
    /\ (last.op = "AddRule" /\ ~MissingID(last.args[1].ID)
          /\ \E p \in Paths(last.args[1]) :
               Len(NearestSchema(last.args[1], p, NoSchema).Elements) = 0) =>
         last.err = Errorf("No valid schema for rule", last.args[1].ID)

\* a tree was added in which a node was compiled against the schema of a
\* child of the root and a node after it against the schema of the root
C11_Witness ==
    /\ last.op = "AddRule" /\ last.err = NoError
    /\ \E n, m \in ExprNodes(last.args) :
         /\ n[1] = m[1] /\ Preorder(n[2], m[2])
         /\ LastOfItsId(last.args, ExprNodes(last.args), n)
         /\ LastOfItsId(last.args, ExprNodes(last.args), m)
         /\ NearestSchema(last.args[n[1]], n[2], NoSchema) # last.args[n[1]].Schema
         /\ NearestSchema(last.args[m[1]], m[2], NoSchema) = last.args[m[1]].Schema
         /\ programs[NodeOf(last.args, n).ID].decls # programs[NodeOf(last.args, m).ID].decls

----------------------------------------------------------------------------
(* Where an AddRule call fails, told from the trees alone *)

\* compiling the node at p of tree r fails: no schema, a schema that cannot
\* be declared, or an expression that does not compile
NodeFails(r, p) ==
    LET node == NodeAt(r, p)
        s == NearestSchema(r, p, NoSchema)
        d == schemaToDeclarations(s)
        env == NewEnv(d.decls)
    IN \/ Len(s.Elements) = 0
       \/ d.err # NoError
       \/ env.err # NoError
       \/ (node.Expr # <<>> /\ compileRule(env, node).err # NoError)

TreeFails(r) == \E p \in Paths(r) : NodeFails(r, p)

\* the first node of r in compile order that fails
FirstFailure(r) ==
    CHOOSE p \in Paths(r) :
      NodeFails(r, p) /\ \A q \in Paths(r) : NodeFails(r, q) => (q = p \/ Preorder(p, q))

RuleFails(r) == MissingID(r.ID) \/ TreeFails(r)

\* the position k of the rule at which AddRule(rs) fails; 0 if it succeeds
FailsAt(rs) ==
    IF \A j \in DOMAIN rs : ~RuleFails(rs[j]) THEN 0
    ELSE CHOOSE k \in DOMAIN rs :
           RuleFails(rs[k]) /\ \A j \in 1..(k - 1) : ~RuleFails(rs[j])

\* the nodes with an expression compiled by AddRule(rs): those of the rules
\* before the failing one, and those of the failing one before its failure
CompiledNodes(rs) ==
    LET k == FailsAt(rs) IN
      {n \in ExprNodes(rs) :
         \/ k = 0
         \/ n[1] < k
         \/ n[1] = k /\ ~MissingID(rs[k].ID) /\ Preorder(n[2], FirstFailure(rs[k]))}

\* C12: when AddRule(r1, ..., rn) fails at rk, r1..r(k-1) are in the rule
\* index, with their programs in the program index; rk..rn are not put into
\* the rule index by the call; rules after rk are not compiled; the programs
\* compiled for nodes of rk before the failure stay in the program index
C12_NoRollback ==
    [][(last'.op = "AddRule" /\ last'.err # NoError) =>
         LET rs == last'.args
             k == FailsAt(rs)
             done == CompiledNodes(rs)
         IN /\ k \in DOMAIN rs
            /\ \A j \in 1..(k - 1) :
                 (\A i \in (j + 1)..(k - 1) : rs[i].ID # rs[j].ID) =>
                   (rs[j].ID \in DOMAIN rules' /\ rules'[rs[j].ID] = rs[j])
            /\ \A id \in ((DOMAIN rules) \cup (DOMAIN rules')) \ {rs[j].ID : j \in 1..(k - 1)} :
                 id \in DOMAIN rules /\ id \in DOMAIN rules' /\ rules'[id] = rules[id]
            /\ \A n \in done :
                 LastOfItsId(rs, done, n) =>
                   /\ NodeOf(rs, n).ID \in DOMAIN programs'
                   /\ programs'[NodeOf(rs, n).ID].expr = NodeOf(rs, n).Expr
            /\ \A id \in ((DOMAIN programs) \cup (DOMAIN programs')) \ {NodeOf(rs, n).ID : n \in done} :
                 id \in DOMAIN programs /\ id \in DOMAIN programs' /\ programs'[id] = programs[id]
      ]_vars

\* AddRule(r1, r2, r3) has failed at r2 after compiling a node of r2: r1 is
\* registered, a program of r2 is in the program index, r2 and r3 are not in
\* the rule index and a node of r3 has no program
C12_Witness ==
    /\ last.op = "AddRule" /\ last.err # NoError
    /\ Len(last.args) = 3 /\ FailsAt(last.args) = 2
    /\ last.args[1].ID \in DOMAIN rules
    /\ last.args[2].ID \notin DOMAIN rules
    /\ last.args[3].ID \notin DOMAIN rules
    /\ \E n \in CompiledNodes(last.args) :
         n[1] = 2 /\ NodeOf(last.args, n).ID \in DOMAIN programs
    /\ \E n \in ExprNodes(last.args) :
         n[1] = 3 /\ NodeOf(last.args, n).ID \notin DOMAIN programs

----------------------------------------------------------------------------
\* C13: an Evaluate call that runs at the same time as another one on the
\* same engine, each on its own data map and with no AddRule, RemoveRule or
\* Calculate under way, returns what it returns when it runs alone, however
\* the steps of the two interleave
C13_ConcurrentEvaluate ==
    \A p \in Goroutines :
      calls[p].pc = "done" =>
        LET alone == Evaluate(engine, calls[p].data, calls[p].id, calls[p].opts)
        IN /\ calls[p].st = alone.st
           /\ calls[p].res = alone.res
           /\ calls[p].err = alone.err

\* two calls on the same tree have both returned a Result, each took steps
\* while the other was under way, and the Results differ
C13_Witness ==
    /\ \A p \in Goroutines :
         calls[p].pc = "done" /\ calls[p].st = "ok" /\ calls[p].mixed
         /\ calls[p].res.Results # EmptyMap
    /\ calls[1].id = calls[2].id
    /\ calls[1].res # calls[2].res

----------------------------------------------------------------------------
\* the EvaluateRule calls made so far by the EvaluateUntilTrue call
UntilTrueCalls == {until.log[i] : i \in DOMAIN until.log}

----------------------------------------------------------------------------
RECURSIVE OptionsAlong(_, _, _)
\* o, then the Opts of each node on the path p from the root r down to and
\* including the node at p, applied in that order
OptionsAlong(r, p, o) ==
    LET o1 == ApplyOptions(o, r.Opts)
    IN IF p = <<>> THEN o1 ELSE OptionsAlong(r.Rules[Head(p)], Tail(p), o1)

\* the engine defaults, then the options passed to the last Evaluate call
CallOptions == ApplyOptions(BaseOptions, last.opts)

\* C15: the options in effect at an evaluated node are the engine defaults,
\* then the options passed to Evaluate, then the Opts of each node on the
\* path from the root down to and including the node, applied in that order;
\* what a node is handed is what its parent has in effect, whatever the Opts
\* of its siblings and of their descendants
C15_OptionScoping ==
    (Evaluated /\ RuleFound(rules, last.id)) =>
      \A v \in Visits :
        /\ v.st # "nil" => v.opt = OptionsAlong(rules[last.id], v.path, CallOptions)
        /\ v.path = <<>> => v.optIn = CallOptions
        /\ v.path # <<>> =>
             v.optIn = OptionsAlong(rules[last.id], SubSeq(v.path, 1, Len(v.path) - 1),
                                    CallOptions)
        /\ \A w \in Visits :
             (Len(w.path) = Len(v.path) + 1 /\ Below(v.path, w.path)) => w.optIn = v.opt

\* a grandchild was evaluated under the Opts of its parent and of the root
\* and the options of the call, and the sibling of its parent, evaluated
\* after it, without the Opts of that parent
C15_Witness ==
    /\ Evaluated /\ last.st = "ok" /\ last.opts # <<>>
    /\ CallOptions # BaseOptions
    /\ \E v, w, u \in Visits :
         /\ Len(v.path) = 2 /\ Len(w.path) = 1 /\ u.path = <<>>
         /\ v.path[1] < w.path[1]
         /\ v.st = "ok" /\ w.st = "ok"
         /\ u.opt # CallOptions
         /\ v.opt # u.opt
         /\ w.opt = u.opt
         /\ LogIndex(v) < LogIndex(w)

----------------------------------------------------------------------------
\* the rule for which the program execution x of the last Evaluate call ran
RuleOf(x) == NodeAt(rules[last.id], x.path)

\* C16: whenever a program is executed for rule R during an Evaluate call,
\* the data map holds R.Self under the Self key if R.Self is set and has no
\* entry under that key if it is not, whatever was evaluated before on the
\* same data map and whatever the caller put under the key
C16_SelfInData ==
    (Evaluated /\ RuleFound(rules, last.id)) =>
      \A i \in DOMAIN last.execs :
        LET x == last.execs[i] IN
          /\ x.id = RuleOf(x).ID
          /\ IF RuleOf(x).Self # Nil
             THEN SelfKey \in DOMAIN x.data /\ x.data[SelfKey] = RuleOf(x).Self
             ELSE SelfKey \notin DOMAIN x.data

\* a program ran for a rule without Self after the program of a sibling with
\* Self had run on the same data map
C16_Witness ==
    /\ Evaluated /\ last.st = "ok"
    /\ \E i, j \in DOMAIN last.execs :
         /\ i < j
         /\ RuleOf(last.execs[i]).Self # Nil
         /\ SelfKey \in DOMAIN last.execs[i].data
         /\ RuleOf(last.execs[j]).Self = Nil
         /\ SelfKey \notin DOMAIN last.execs[j].data

----------------------------------------------------------------------------
\* C17: when the program of a node fails at run time during Evaluate, the
\* call returns a nil Result and an error naming the id of that rule, and no
\* program is executed after the failure
C17_RuntimeErrorAborts ==
    Evaluated =>
      /\ \A i \in DOMAIN last.execs :
           last.execs[i].err # NoError =>
             /\ i = Len(last.execs)
             /\ last.st = "err"
             /\ last.res = NoResult
             /\ last.err = Wrap("Error evaluating rule", last.execs[i].id, last.execs[i].err)
      /\ (last.st = "err" /\ RuleFound(rules, last.id)) =>
           /\ last.execs # <<>>
           /\ last.execs[Len(last.execs)].err # NoError

\* the program of a grandchild failed after the program of the root had run,
\* and a node with a program that comes after it in the tree was not visited
C17_Witness ==
    /\ Evaluated /\ last.st = "err" /\ RuleFound(rules, last.id)
    /\ Len(last.execs) >= 2
    /\ last.execs[1].err = NoError
    /\ Len(last.execs[Len(last.execs)].path) = 2
    /\ \E p \in Paths(rules[last.id]) :
         /\ Preorder(last.execs[Len(last.execs)].path, p)
         /\ HasProgram(programs, NodeAt(rules[last.id], p).ID)
         /\ \A v \in Visits : v.path # p

----------------------------------------------------------------------------
\* C18: RemoveRule(id) removes the entry of the rule index and the entry of
\* the program index under id and leaves every other entry of both indexes
\* as it is, the programs of the descendants of the removed rule included;
\* RuleCount drops by one if id was in the rule index and stays otherwise
C18_RemoveRuleFrame ==
    [][last'.op = "RemoveRule" =>
         /\ DOMAIN rules' = (DOMAIN rules) \ {last'.id}
         /\ \A k \in DOMAIN rules' : rules'[k] = rules[k]
         /\ DOMAIN programs' = (DOMAIN programs) \ {last'.id}
         /\ \A k \in DOMAIN programs' : programs'[k] = programs[k]
         /\ RuleCount([rules |-> rules', programs |-> programs'])
              = RuleCount(engine) - (IF last'.id \in DOMAIN rules THEN 1 ELSE 0)
      ]_vars

\* a rule with children was removed: the program of one of its descendants
\* is still in the program index, and another rule is still registered
C18_Witness ==
    /\ last.op = "RemoveRule"
    /\ last.args # <<>>
    /\ last.id \notin (DOMAIN rules) \cup (DOMAIN programs)
    /\ RuleCount(engine) > 0
    /\ \E p \in Paths(last.args[1]) \ {<<>>} :
         /\ NodeAt(last.args[1], p).ID # last.id
         /\ NodeAt(last.args[1], p).ID \in DOMAIN programs

----------------------------------------------------------------------------
\* the nodes of the trees held by the rule index: the id of the root in the
\* index, and the path of the node
RegisteredNodes == UNION {{<<id, p>> : p \in Paths(rules[id])} : id \in DOMAIN rules}

Registered(n) == NodeAt(rules[n[1]], n[2])

\* all rule ids are distinct across the registered trees
DistinctIds ==
    \A n, m \in RegisteredNodes : n # m => Registered(n).ID # Registered(m).ID

\* C19: when all rule ids are distinct across the registered trees, every
\* node with a non-empty Expr of a tree in the rule index has a program in
\* the program index under its id, compiled from that Expr, and Evaluate
\* runs for each node the program of the node's own expression (refuted:
\* RemoveRule with the id of a child takes the child's program away and
\* leaves the child in its tree)
C19_ProgramOfOwnExpr ==
    DistinctIds =>
      /\ \A n \in RegisteredNodes :
           Registered(n).Expr # <<>> =>
             /\ Registered(n).ID \in DOMAIN programs
             /\ programs[Registered(n).ID].expr = Registered(n).Expr
      /\ (Evaluated /\ RuleFound(rules, last.id)) =>
           \A x \in Execs : x.prg.expr = RuleOf(x).Expr

=============================================================================
